---------------------------- MODULE Spec2Model ----------------------------
(***************************************************************************)
(* Video upload pipeline: extract_frames_from_video,                       *)
(* delete_video_and_images_by_list and analyze_video_from_image_urls       *)
(* (video_analysis.py) and the /process handler process_video (app.py).    *)
(*                                                                         *)
(* One behaviour is one call of one public entry point, chosen in Init     *)
(* together with the call's inputs and the environment it runs in (the     *)
(* decoded stream of the video, the file system, the platform separator).  *)
(* A path is a sequence of components, a component and a string are        *)
(* sequences of characters.                                                *)
(***************************************************************************)
EXTENDS Integers, Sequences, FiniteSets, TLC

VARIABLES
    entry,                    \* the function the caller invoked
    pc,                       \* position in the code
    \* ---- extract_frames_from_video
    openable,                 \* whether cv2.VideoCapture can open video_path
    video,                    \* the decoded stream: CAP_PROP_POS_MSEC of each frame
    interval_ms,
    output_folder,
    folder_exists,            \* os.path.exists(output_folder)
    cap,                      \* the VideoCapture object: none/closed/opened/released
    pos,                      \* frames cap.read() has delivered
    current_time_ms,
    next_extraction_time_ms,
    frame_count,
    extracted_frame_paths,
    imwrite_calls,            \* the cv2.imwrite calls made: path, frame, outcome
    x_returned,               \* extract_frames_from_video has returned
    x_result,                 \* the list it returned
    \* ---- process_video and analyze_video_from_image_urls
    has_video_field,          \* 'video' in request.files
    raw_filename,             \* file.filename
    filename,                 \* secure_filename(file.filename)
    os_sep,                   \* os.sep of the platform
    saved,                    \* file.save has stored the upload
    frame_urls,
    messages,
    requests,                 \* the chat.completions.create calls issued
    description,
    response,                 \* what process_video rendered
    \* ---- delete_video_and_images_by_list
    list_of_image_paths,
    fs,                       \* the paths that exist in the file system
    fs0,                      \* the file system when the call started
    parent_directories_to_check,
    img_i,                    \* loop index over list_of_image_paths
    sorted_dirs,              \* the part of sorted_dirs still to visit
    log                       \* what the function printed: message kind and path

xvars == <<openable, video, interval_ms, output_folder, folder_exists, cap, pos,
           current_time_ms, next_extraction_time_ms, frame_count,
           extracted_frame_paths, imwrite_calls, x_returned, x_result>>
avars == <<has_video_field, raw_filename, filename, os_sep, saved, frame_urls,
           messages, requests, description, response>>
dvars == <<list_of_image_paths, fs, fs0, parent_directories_to_check, img_i,
           sorted_dirs, log>>
vars == <<entry, pc, xvars, avars, dvars>>

----------------------------------------------------------------------------
(* Bounds of the model *)

MaxFrames == 4          \* longest enumerated stream
MaxGap == 4             \* largest step between two consecutive timestamps
MaxWriteFailures == 1   \* cv2.imwrite calls that may fail in one call
MaxImages == 2          \* longest list_of_image_paths

----------------------------------------------------------------------------
(* Strings and paths *)

RECURSIVE JoinWith(_, _)
\* sep.join(parts), sep one character
JoinWith(parts, sep) ==
    IF parts = <<>> THEN <<>>
    ELSE IF Len(parts) = 1 THEN Head(parts)
    ELSE Head(parts) \o <<sep>> \o JoinWith(Tail(parts), sep)

DigitChar == <<"0", "1", "2", "3", "4", "5", "6", "7", "8", "9">>

RECURSIVE Digits(_)
\* the decimal digits of a natural number, most significant first
Digits(n) ==
    IF n < 10 THEN <<DigitChar[n + 1]>>
    ELSE Append(Digits(n \div 10), DigitChar[(n % 10) + 1])

PadWidth == 5

\* f"{n:05d}": at least PadWidth digits, zero-filled on the left, never cut
Format05d(n) ==
    LET d == Digits(n)
    IN  IF Len(d) >= PadWidth THEN d
        ELSE [i \in 1..(PadWidth - Len(d)) |-> "0"] \o d

\* a formatting that keeps only the last PadWidth digits
Format05dCut(n) ==
    LET d == Digits(n)
    IN  IF Len(d) >= PadWidth THEN SubSeq(d, Len(d) - PadWidth + 1, Len(d))
        ELSE [i \in 1..(PadWidth - Len(d)) |-> "0"] \o d

FrameFileCut(n) == <<"f", "r", "a", "m", "e", "_">> \o Format05dCut(n) \o <<".", "j", "p", "g">>

\* f"frame_{frame_count:05d}.jpg"
FrameFile(n) == <<"f", "r", "a", "m", "e", "_">> \o Format05d(n) \o <<".", "j", "p", "g">>

Cwd == << <<"a", "p", "p">> >>
Dot == <<".">>
DotDot == <<".", ".">>

\* os.path.abspath of a relative path: the working directory in front, "." dropped
Abspath(p) == Cwd \o SelectSeq(p, LAMBDA c : c # Dot)

\* os.path.join(folder, name)
OsPathJoin(folder, name) == Append(folder, name)

\* os.path.dirname
Dirname(p) == IF p = <<>> THEN <<>> ELSE SubSeq(p, 1, Len(p) - 1)

RECURSIVE CommonPrefix(_, _)
CommonPrefix(p, q) ==
    IF p = <<>> \/ q = <<>> \/ Head(p) # Head(q) THEN 0
    ELSE 1 + CommonPrefix(Tail(p), Tail(q))

\* os.path.relpath(path, start): up from start to the common ancestor, then down
Relpath(path, start) ==
    LET base == Abspath(start)
        c    == CommonPrefix(path, base)
    IN  [i \in 1..(Len(base) - c) |-> DotDot] \o SubSeq(path, c + 1, Len(path))

\* the string of a path on the platform
PathString(p, sep) == JoinWith(p, sep)

\* to_url_path: path.replace(os.sep, '/')
to_url_path(s, sep) == [i \in 1..Len(s) |-> IF s[i] = sep THEN "/" ELSE s[i]]

----------------------------------------------------------------------------
(* The inputs of extract_frames_from_video *)

RECURSIVE Timestamps(_, _)
\* the stream that starts at t0 and advances by the gaps
Timestamps(t0, gaps) ==
    IF gaps = <<>> THEN <<t0>>
    ELSE <<t0>> \o Timestamps(t0 + Head(gaps), Tail(gaps))

\* the timestamp of the first frame: 0, or already one frame on
StartTimes == {0, 1}

\* the intervals of a direct call on an enumerated stream
Intervals == {1, 2, 3}

\* decoded streams of up to MaxFrames frames, timestamps strictly increasing from
\* a first timestamp >= 0
Streams ==
    {<<>>} \cup
    UNION {{Timestamps(t0, g) : t0 \in StartTimes, g \in [1..(n - 1) -> 1..MaxGap]} :
           n \in 1..MaxFrames}

\* the stream decoded at 0, 500, 1000, ..., 9500 ms
ExampleStream == [k \in 1..20 |-> 500 * (k - 1)]

AppInterval == 1000

DirectOutputFolder == << <<"o", "u", "t">> >>

\* (video, interval) of a direct call
DirectInputs ==
    (Streams \X Intervals) \cup {<<ExampleStream, AppInterval>>}

WriteFailures == Cardinality({i \in 1..Len(imwrite_calls) : ~imwrite_calls[i].ok})

----------------------------------------------------------------------------
(* extract_frames_from_video *)

\* return of extract_frames_from_video to whoever called it
XReturn(result) ==
    /\ x_returned' = TRUE
    /\ x_result' = result
    /\ pc' = IF entry = "process_video" THEN "p_urls" ELSE "done"

\* lines 19-22: the output folder is made when it is missing
X_MakeFolder ==
    /\ pc = "x_mkdir"
    /\ output_folder' = Abspath(output_folder)
    /\ folder_exists' = TRUE
    /\ pc' = "x_open"
    /\ UNCHANGED <<entry, openable, video, interval_ms, cap, pos, current_time_ms,
                   next_extraction_time_ms, frame_count, extracted_frame_paths,
                   imwrite_calls, x_returned, x_result, avars, dvars>>

\* lines 25-30: a source that does not open ends the call with []
X_OpenFailed ==
    /\ pc = "x_open"
    /\ ~openable
    /\ cap' = "closed"
    /\ XReturn(<<>>)
    /\ UNCHANGED <<entry, openable, video, interval_ms, output_folder, folder_exists,
                   pos, current_time_ms, next_extraction_time_ms, frame_count,
                   extracted_frame_paths, imwrite_calls, avars, dvars>>

\* lines 25-41: the source opens; the list, the counter and the threshold start
X_Open ==
    /\ pc = "x_open"
    /\ openable
    /\ cap' = "opened"
    /\ extracted_frame_paths' = <<>>
    /\ frame_count' = 0
    /\ next_extraction_time_ms' = 0
    /\ pc' = "x_read"
    /\ UNCHANGED <<entry, openable, video, interval_ms, output_folder, folder_exists,
                   pos, current_time_ms, imwrite_calls, x_returned, x_result,
                   avars, dvars>>

\* lines 49-56: the next frame and its position
X_Read ==
    /\ pc = "x_read"
    /\ pos < Len(video)
    /\ pos' = pos + 1
    /\ current_time_ms' = video[pos + 1]
    /\ pc' = "x_select"
    /\ UNCHANGED <<entry, openable, video, interval_ms, output_folder, folder_exists,
                   cap, next_extraction_time_ms, frame_count, extracted_frame_paths,
                   imwrite_calls, x_returned, x_result, avars, dvars>>

\* lines 49-53: no frame is retrieved, the loop ends
X_EndOfStream ==
    /\ pc = "x_read"
    /\ pos = Len(video)
    /\ pc' = "x_release"
    /\ UNCHANGED <<entry, xvars, avars, dvars>>

\* lines 58-70 with the test, the file name and the new threshold given
SelectStep(eligible, file, next) ==
    /\ pc = "x_select"
    /\ IF eligible
       THEN LET frame_filename == OsPathJoin(output_folder, file)
            IN  /\ \E ok \in {TRUE} \cup {w \in {FALSE} : WriteFailures < MaxWriteFailures} :
                       imwrite_calls' = Append(imwrite_calls,
                           [path |-> frame_filename, frame |-> pos, ok |-> ok])
                /\ extracted_frame_paths' = Append(extracted_frame_paths, frame_filename)
                /\ next_extraction_time_ms' = next
       ELSE UNCHANGED <<imwrite_calls, extracted_frame_paths, next_extraction_time_ms>>
    /\ pc' = "x_incr"
    /\ UNCHANGED <<entry, openable, video, interval_ms, output_folder, folder_exists,
                   cap, pos, current_time_ms, frame_count, x_returned, x_result,
                   avars, dvars>>

\* the test written with > instead of >=
X_SelectStrict ==
    SelectStep(current_time_ms > next_extraction_time_ms, FrameFile(frame_count),
               next_extraction_time_ms + interval_ms)

\* the file named by the number of frames selected so far
X_SelectNamedBySelection ==
    SelectStep(current_time_ms >= next_extraction_time_ms,
               FrameFile(Len(extracted_frame_paths)),
               next_extraction_time_ms + interval_ms)

\* the threshold left where it was
X_SelectNoAdvance ==
    SelectStep(current_time_ms >= next_extraction_time_ms, FrameFile(frame_count),
               next_extraction_time_ms)

\* lines 58-70: a frame at or past the threshold is written and listed, and the
\* threshold moves on by interval_ms
X_Select ==
    SelectStep(current_time_ms >= next_extraction_time_ms, FrameFile(frame_count),
               next_extraction_time_ms + interval_ms)

\* line 72
X_Increment ==
    /\ pc = "x_incr"
    /\ frame_count' = frame_count + 1
    /\ pc' = "x_read"
    /\ UNCHANGED <<entry, openable, video, interval_ms, output_folder, folder_exists,
                   cap, pos, current_time_ms, next_extraction_time_ms,
                   extracted_frame_paths, imwrite_calls, x_returned, x_result,
                   avars, dvars>>

\* lines 75-79
X_Release ==
    /\ pc = "x_release"
    /\ cap' = "released"
    /\ XReturn(extracted_frame_paths)
    /\ UNCHANGED <<entry, openable, video, interval_ms, output_folder, folder_exists,
                   pos, current_time_ms, next_extraction_time_ms, frame_count,
                   extracted_frame_paths, imwrite_calls, avars, dvars>>

ExtractNext ==
    \/ X_MakeFolder
    \/ X_OpenFailed
    \/ X_Open
    \/ X_Read
    \/ X_EndOfStream
    \/ X_Select
    \/ X_Increment
    \/ X_Release

----------------------------------------------------------------------------
(* process_video and analyze_video_from_image_urls *)

RECURSIVE SplitWhitespace(_, _)
\* str.split(): the maximal runs of non-blank characters
SplitWhitespace(s, word) ==
    IF s = <<>> THEN (IF word = <<>> THEN <<>> ELSE <<word>>)
    ELSE IF Head(s) = " "
         THEN (IF word = <<>> THEN <<>> ELSE <<word>>) \o SplitWhitespace(Tail(s), <<>>)
         ELSE SplitWhitespace(Tail(s), Append(word, Head(s)))

RECURSIVE LStrip(_, _)
LStrip(s, chars) ==
    IF s # <<>> /\ Head(s) \in chars THEN LStrip(Tail(s), chars) ELSE s

RECURSIVE RStrip(_, _)
RStrip(s, chars) ==
    IF s # <<>> /\ s[Len(s)] \in chars THEN RStrip(SubSeq(s, 1, Len(s) - 1), chars) ELSE s

\* the characters secure_filename keeps, of those the model's file names use
FilenameChars == {"v", "w", ".", "_", "-"}

\* the separators of the platform: os.sep and os.path.altsep
Separators(sep) == IF sep = "\\" THEN {"\\", "/"} ELSE {sep}

\* werkzeug's secure_filename: separators become blanks, blank runs become "_",
\* other characters are dropped, leading and trailing "." and "_" are stripped
secure_filename(name, sep) ==
    LET blanked == [i \in 1..Len(name) |->
                        IF name[i] \in Separators(sep) THEN " " ELSE name[i]]
        joined  == JoinWith(SplitWhitespace(blanked, <<>>), "_")
        kept    == SelectSeq(joined, LAMBDA c : c \in FilenameChars)
    IN  RStrip(LStrip(kept, {".", "_"}), {".", "_"})

\* the file names a request may carry
RawFilenames ==
    {<<>>, <<".", ".">>, <<"v">>, <<".", "/", "v", " ", "w">>, <<"v", "\\", "w">>}

\* the decoded streams of the uploads
AppVideos == {<<>>, <<0>>, <<33, 400, 1200, 2600, 2700>>, ExampleStream}

UPLOAD_FOLDER == <<Dot, <<"t", "e", "m", "p">>>>
StaticDir == <<"s", "t", "a", "t", "i", "c">>
FRAME_FOLDER == <<Dot, StaticDir, <<"f", "r", "a", "m", "e", "s">>>>
HostUrl == <<"h", "/">>

\* lines 41-44: the absolute URL of a frame path
FrameUrl(path, sep) ==
    LET rel_path == to_url_path(PathString(Relpath(path, <<StaticDir>>), sep), sep)
        url      == <<"/">> \o StaticDir \o <<"/">> \o rel_path
    IN  RStrip(HostUrl, {"/"}) \o url

\* lines 24-28, with the error messages as given
CheckRequest(no_part, no_file) ==
    /\ pc = "p_check"
    /\ IF ~has_video_field
       THEN /\ response' = [template |-> "index.html", error |-> no_part]
            /\ pc' = "done"
       ELSE IF raw_filename = <<>>
       THEN /\ response' = [template |-> "index.html", error |-> no_file]
            /\ pc' = "done"
       ELSE /\ pc' = "p_save"
            /\ UNCHANGED response
    /\ UNCHANGED <<entry, xvars, has_video_field, raw_filename, filename, os_sep,
                   saved, frame_urls, messages, requests, description, dvars>>

\* lines 24-28: a request without file part or without file name is answered at once
P_Check == CheckRequest("No video part in the request.", "No selected file.")

\* lines 29-31: the name is sanitized and the upload stored under it; file.save
\* raises when the name is empty (the path is the upload folder itself) or the
\* storage fails, and nothing catches it
P_Save ==
    /\ pc = "p_save"
    /\ filename' = secure_filename(raw_filename, os_sep)
    /\ \/ /\ filename' # <<>>
          /\ saved' = TRUE
          /\ pc' = "p_mkdir"
       \/ /\ pc' = "raised"
          /\ UNCHANGED saved
    /\ UNCHANGED <<entry, xvars, has_video_field, raw_filename, os_sep, frame_urls,
                   messages, requests, description, response, dvars>>

\* lines 34-36: the frame folder is made and extract_frames_from_video called
P_Extract ==
    /\ pc = "p_mkdir"
    /\ output_folder' = OsPathJoin(FRAME_FOLDER,
                                   filename \o <<"_", "f", "r", "a", "m", "e", "s">>)
    /\ folder_exists' = TRUE
    /\ interval_ms' = AppInterval
    /\ pc' = "x_mkdir"
    /\ UNCHANGED <<entry, openable, video, cap, pos, current_time_ms,
                   next_extraction_time_ms, frame_count, extracted_frame_paths,
                   imwrite_calls, x_returned, x_result, avars, dvars>>

\* lines 39-44
P_Urls ==
    /\ pc = "p_urls"
    /\ frame_urls' = [i \in 1..Len(x_result) |-> FrameUrl(x_result[i], os_sep)]
    /\ pc' = "a_check"
    /\ UNCHANGED <<entry, xvars, has_video_field, raw_filename, filename, os_sep,
                   saved, messages, requests, description, response, dvars>>

\* the request sent even for an empty list
A_CheckNothing ==
    /\ pc = "a_check"
    /\ pc' = "a_build"
    /\ UNCHANGED <<entry, xvars, avars, dvars>>

\* lines 180-182: no URL, no request
A_Check ==
    /\ pc = "a_check"
    /\ IF frame_urls = <<>>
       THEN /\ description' = "None"
            /\ pc' = "p_render"
       ELSE /\ pc' = "a_build"
            /\ UNCHANGED description
    /\ UNCHANGED <<entry, xvars, has_video_field, raw_filename, filename, os_sep,
                   saved, frame_urls, messages, requests, response, dvars>>

SystemMessage == [role |-> "system", content |-> "You are a helpful assistant"]
SummaryRequest == [type |-> "text", text |-> "summary"]
ImageEntry(url) == [type |-> "image_url", image_url |-> [url |-> url]]

\* lines 184-204: the system message, then the user message with the images in
\* order and the text after them
A_Build ==
    /\ pc = "a_build"
    /\ messages' = <<SystemMessage,
                     [role |-> "user",
                      content |-> Append([i \in 1..Len(frame_urls) |->
                                              ImageEntry(frame_urls[i])],
                                         SummaryRequest)]>>
    /\ pc' = "a_call"
    /\ UNCHANGED <<entry, xvars, has_video_field, raw_filename, filename, os_sep,
                   saved, frame_urls, requests, description, response, dvars>>

\* lines 206-224: the request is sent; an answer is returned, any exception is
\* caught and None returned
A_Call ==
    /\ pc = "a_call"
    /\ requests' = Append(requests, messages)
    /\ description' \in {"text", "None"}
    /\ pc' = "p_render"
    /\ UNCHANGED <<entry, xvars, has_video_field, raw_filename, filename, os_sep,
                   saved, frame_urls, messages, response, dvars>>

\* line 48
P_Render ==
    /\ pc = "p_render"
    /\ response' = [template |-> "index.html", description |-> description,
                    frame_urls |-> frame_urls]
    /\ pc' = "done"
    /\ UNCHANGED <<entry, xvars, has_video_field, raw_filename, filename, os_sep,
                   saved, frame_urls, messages, requests, description, dvars>>

AppNext ==
    \/ P_Check
    \/ P_Save
    \/ P_Extract
    \/ P_Urls
    \/ A_Check
    \/ A_Build
    \/ A_Call
    \/ P_Render

----------------------------------------------------------------------------
(* delete_video_and_images_by_list *)

VideoPath == << <<"v">> >>
DirD == << <<"d">> >>
DirE == << <<"d">>, <<"e">> >>
DirG == << <<"g">> >>
ImageX == << <<"d">>, <<"x">> >>
ImageY == << <<"d">>, <<"e">>, <<"y">> >>
ImageZ == << <<"g">>, <<"z">> >>
ImageW == << <<"w">> >>                     \* a bare file name, in the working directory
OtherK == << <<"d">>, <<"e">>, <<"k">> >>   \* a file the caller does not list

ImagePaths == {ImageX, ImageY, ImageZ, ImageW}
AllPaths == {VideoPath, DirD, DirE, DirG, OtherK} \cup ImagePaths

\* what exists has its directory
FileSystems ==
    {f \in SUBSET AllPaths : \A q \in f : Len(q) = 1 \/ Dirname(q) \in f}

SeqsUpTo(S, n) == UNION {[1..k -> S] : k \in 0..n}

\* os.listdir(d)
Listdir(d, f) == {q \in f : q # <<>> /\ Dirname(q) = d}

\* len of the path string
PathLen(q) == Len(PathString(q, "/"))

\* sorted(list(dirs), key=len, reverse=True): longest first, ties in the order
\* the set happens to list them
SortedByLen(dirs) ==
    {s \in [1..Cardinality(dirs) -> dirs] :
        /\ \A i, j \in DOMAIN s : i # j => s[i] # s[j]
        /\ \A i, j \in DOMAIN s : i < j => PathLen(s[i]) >= PathLen(s[j])}

Logged(msg, path) == log' = Append(log, [msg |-> msg, path |-> path])

\* lines 98-105
D_Video ==
    /\ pc = "d_video"
    /\ IF VideoPath \in fs
       THEN \/ /\ fs' = fs \ {VideoPath}
               /\ Logged("deleted video", VideoPath)
            \/ /\ Logged("error deleting video", VideoPath)
               /\ UNCHANGED fs
       ELSE /\ Logged("video not found", VideoPath)
            /\ UNCHANGED fs
    /\ parent_directories_to_check' = {}
    /\ pc' = "d_images"
    /\ UNCHANGED <<entry, xvars, avars, list_of_image_paths, fs0, img_i, sorted_dirs>>

\* lines 110-111
D_NoImages ==
    /\ pc = "d_images"
    /\ list_of_image_paths = <<>>
    /\ Logged("no image paths", <<>>)
    /\ pc' = "d_sort"
    /\ UNCHANGED <<entry, xvars, avars, list_of_image_paths, fs, fs0,
                   parent_directories_to_check, img_i, sorted_dirs>>

\* lines 114-126 for one image path; caught: the except clause is there
DeleteImage(caught) ==
    /\ pc = "d_images"
    /\ img_i <= Len(list_of_image_paths)
    /\ LET image_path == list_of_image_paths[img_i]
           parent_dir == Dirname(image_path)
           continue   == /\ img_i' = img_i + 1
                         /\ pc' = IF img_i = Len(list_of_image_paths)
                                  THEN "d_sort" ELSE "d_images"
       IN  IF image_path \in fs
           THEN \/ /\ fs' = fs \ {image_path}
                   /\ Logged("deleted image", image_path)
                   /\ parent_directories_to_check' =
                          IF parent_dir # <<>>
                          THEN parent_directories_to_check \cup {parent_dir}
                          ELSE parent_directories_to_check
                   /\ continue
                \/ /\ IF caught
                      THEN Logged("error deleting image", image_path) /\ continue
                      ELSE pc' = "raised" /\ UNCHANGED <<log, img_i>>
                   /\ UNCHANGED <<fs, parent_directories_to_check>>
           ELSE /\ Logged("image not found", image_path)
                /\ continue
                /\ UNCHANGED <<fs, parent_directories_to_check>>
    /\ UNCHANGED <<entry, xvars, avars, list_of_image_paths, fs0, sorted_dirs>>

\* the loop without its except clause
D_ImageUncaught == DeleteImage(FALSE)

\* lines 114-126: an image that exists is removed and its directory recorded; a
\* failure is printed; a missing image is printed
D_Image == DeleteImage(TRUE)

\* lines 129-132
D_Sort ==
    /\ pc = "d_sort"
    /\ IF parent_directories_to_check # {}
       THEN /\ sorted_dirs' \in SortedByLen(parent_directories_to_check)
            /\ pc' = "d_dirs"
       ELSE /\ pc' = "done"
            /\ UNCHANGED sorted_dirs
    /\ UNCHANGED <<entry, xvars, avars, list_of_image_paths, fs, fs0,
                   parent_directories_to_check, img_i, log>>

\* lines 133-145 for one directory
D_Dir ==
    /\ pc = "d_dirs"
    /\ LET p_dir == Head(sorted_dirs)
       IN  IF p_dir \in fs
           THEN IF Listdir(p_dir, fs) = {}
                THEN \/ /\ fs' = fs \ {p_dir}
                        /\ Logged("deleted empty directory", p_dir)
                     \/ /\ Logged("error deleting directory", p_dir)
                        /\ UNCHANGED fs
                ELSE \/ /\ Logged("directory not empty", p_dir)
                        /\ UNCHANGED fs
                     \/ /\ Logged("error deleting directory", p_dir)
                        /\ UNCHANGED fs
           ELSE /\ Logged("directory not found", p_dir)
                /\ UNCHANGED fs
    /\ sorted_dirs' = Tail(sorted_dirs)
    /\ pc' = IF Len(sorted_dirs) = 1 THEN "done" ELSE "d_dirs"
    /\ UNCHANGED <<entry, xvars, avars, list_of_image_paths, fs0,
                   parent_directories_to_check, img_i>>

DeleteNext ==
    \/ D_Video
    \/ D_NoImages
    \/ D_Image
    \/ D_Sort
    \/ D_Dir

----------------------------------------------------------------------------
(* The calls *)

Idle ==
    /\ cap = "none"
    /\ pos = 0
    /\ current_time_ms = 0
    /\ next_extraction_time_ms = 0
    /\ frame_count = 0
    /\ extracted_frame_paths = <<>>
    /\ imwrite_calls = <<>>
    /\ x_returned = FALSE
    /\ x_result = <<>>
    /\ filename = <<>>
    /\ saved = FALSE
    /\ frame_urls = <<>>
    /\ messages = <<>>
    /\ requests = <<>>
    /\ description = "unset"
    /\ response = [template |-> "none"]
    /\ parent_directories_to_check = {}
    /\ img_i = 1
    /\ sorted_dirs = <<>>
    /\ log = <<>>
    /\ fs0 = fs

\* extract_frames_from_video(video_path, output_folder, interval_ms)
InitExtract ==
    /\ entry = "extract"
    /\ pc = "x_mkdir"
    /\ \E input \in DirectInputs : video = input[1] /\ interval_ms = input[2]
    /\ openable \in BOOLEAN
    /\ folder_exists \in BOOLEAN
    /\ output_folder = DirectOutputFolder
    /\ has_video_field = FALSE
    /\ raw_filename = <<>>
    /\ os_sep = "/"
    /\ list_of_image_paths = <<>>
    /\ fs = {}

\* POST /process
InitProcess ==
    /\ entry = "process_video"
    /\ pc = "p_check"
    /\ has_video_field \in BOOLEAN
    /\ raw_filename \in RawFilenames
    /\ os_sep \in {"/", "\\"}
    /\ video \in AppVideos
    /\ openable \in BOOLEAN
    /\ interval_ms = 0
    /\ folder_exists = FALSE
    /\ output_folder = <<>>
    /\ list_of_image_paths = <<>>
    /\ fs = {}

\* delete_video_and_images_by_list(video_path, list_of_image_paths)
InitDelete ==
    /\ entry = "delete"
    /\ pc = "d_video"
    /\ list_of_image_paths \in SeqsUpTo(ImagePaths, MaxImages)
    /\ fs \in FileSystems
    /\ video = <<>>
    /\ interval_ms = 0
    /\ openable = FALSE
    /\ folder_exists = FALSE
    /\ output_folder = <<>>
    /\ has_video_field = FALSE
    /\ raw_filename = <<>>
    /\ os_sep = "/"

Init == (InitExtract \/ InitProcess \/ InitDelete) /\ Idle

Next == ExtractNext \/ AppNext \/ DeleteNext

Spec == Init /\ [][Next]_vars

----------------------------------------------------------------------------
(* Properties of extract_frames_from_video *)

\* the stream position (1-based) of the i-th frame handed to cv2.imwrite
SelectedFrame(i) == imwrite_calls[i].frame
SelectedTime(i) == video[SelectedFrame(i)]
NumSelected == Len(imwrite_calls)

\* the decode-order index a frame file name carries, read back from the name
IndexOfName(name) == CHOOSE n \in 0..Len(video) : FrameFile(n) = name
IndexOfPath(path) == IndexOfName(path[Len(path)])

\* frame k is the first of the stream to reach or exceed some multiple of the interval
FirstToReach(k) ==
    \E m \in 0..(video[k] \div interval_ms) :
        /\ video[k] >= m * interval_ms
        /\ k = 1 \/ video[k - 1] < m * interval_ms

\* C1: when the call has returned from an opened source, the frames persisted are
\* exactly the frames that are the first to reach or exceed some multiple of the
\* interval, in stream order, whatever the gaps between timestamps
C1_ExactlyFirstToReach ==
    (x_returned /\ openable /\ interval_ms > 0) =>
        /\ {SelectedFrame(i) : i \in 1..NumSelected}
               = {k \in 1..Len(video) : FirstToReach(k)}
        /\ \A i \in 1..(NumSelected - 1) : SelectedFrame(i) < SelectedFrame(i + 1)

\* C2 as stated: two consecutive selected frames are at least the interval apart
C2_MinimumSpacing ==
    \A i \in 1..(NumSelected - 1) :
        SelectedTime(i + 1) - SelectedTime(i) >= interval_ms

\* C2: the k-th selected frame (k = 0, 1, ...) has a timestamp of at least k times
\* the interval, the threshold is the interval times the number of frames selected,
\* and the selected timestamps strictly increase
C2_SelectedAtOrAfterGrid ==
    (cap # "none" /\ openable) =>
        /\ \A i \in 1..NumSelected : SelectedTime(i) >= (i - 1) * interval_ms
        /\ \A i \in 1..(NumSelected - 1) : SelectedTime(i) < SelectedTime(i + 1)
        /\ cap = "opened" => next_extraction_time_ms = NumSelected * interval_ms

\* two consecutive selected frames closer than the interval, in a returned result
C2_Witness ==
    /\ x_returned
    /\ \E i \in 1..(NumSelected - 1) :
           SelectedTime(i + 1) - SelectedTime(i) < interval_ms

\* C3: every call that has created the video source has released it when it returns
C3_ReleasedOnReturn ==
    (x_returned /\ cap # "none") => cap = "released"

\* frame counts around and beyond what five digits hold
NameProbe == (0..2) \cup (99998..100001) \cup {199999, 200000, 1000000, 1099999}

\* frame file names of different counters differ
NamesDistinct == \A m, n \in NameProbe : m # n => FrameFile(m) # FrameFile(n)

\* C4: at every point the listed paths are the paths written, strictly increasing
\* in the decode-order index their names carry and in source timestamp, pairwise
\* different; and frame file names differ for different counters also beyond
\* five digits
C4_ListStrictlyIncreasing ==
    /\ Len(extracted_frame_paths) = NumSelected
    /\ \A i \in 1..NumSelected : extracted_frame_paths[i] = imwrite_calls[i].path
    /\ \A i \in 1..(Len(extracted_frame_paths) - 1) :
           LET this == IndexOfPath(extracted_frame_paths[i])
               next == IndexOfPath(extracted_frame_paths[i + 1])
           IN  this < next /\ video[this + 1] < video[next + 1]
    /\ \A i, j \in 1..Len(extracted_frame_paths) :
           i # j => extracted_frame_paths[i] # extracted_frame_paths[j]
    /\ NamesDistinct

\* a returned list of three frames with a skipped frame between two of them
C4_Witness ==
    /\ x_returned
    /\ Len(x_result) >= 3
    /\ \E i \in 1..(NumSelected - 1) : SelectedFrame(i + 1) > SelectedFrame(i) + 1

\* C5: the name of every persisted frame carries the number of frames decoded
\* before it, the counter equals the number of frames whose iteration is complete,
\* and the stream 0, 500, ..., 9500 with interval 1000 yields the ten frames at
\* 0, 1000, ..., 9000 with indices 0, 2, ..., 18
C5_NameCarriesDecodeIndex ==
    /\ \A i \in 1..NumSelected :
           /\ imwrite_calls[i].path = OsPathJoin(output_folder,
                                                 FrameFile(SelectedFrame(i) - 1))
           /\ IndexOfPath(imwrite_calls[i].path) = SelectedFrame(i) - 1
    /\ frame_count = IF pc \in {"x_select", "x_incr"} THEN pos - 1 ELSE pos
    /\ (x_returned /\ openable /\ video = ExampleStream /\ interval_ms = 1000) =>
           /\ Len(x_result) = 10
           /\ \A i \in 1..Len(x_result) :
                  /\ SelectedTime(i) = 1000 * (i - 1)
                  /\ IndexOfPath(x_result[i]) = 2 * (i - 1)

\* the direct call on the example stream has returned its ten frames
C5_Witness ==
    /\ entry = "extract"
    /\ x_returned
    /\ video = ExampleStream
    /\ interval_ms = 1000
    /\ Len(x_result) = 10
    /\ frame_count = 20

\* C6: the returned list is empty exactly when the source did not open or held no
\* frame; on a source that did not open nothing was read or written, nothing was
\* raised, and the output directory is all there is
C6_EmptyExactlyWhenNothingDecoded ==
    x_returned =>
        /\ x_result = <<>> <=> (~openable \/ video = <<>>)
        /\ ~openable =>
               /\ imwrite_calls = <<>>
               /\ pos = 0
               /\ folder_exists
               /\ pc # "raised"

\* a direct call on a source that does not open has returned
C6_Witness ==
    /\ entry = "extract"
    /\ x_returned
    /\ ~openable
    /\ video # <<>>
    /\ x_result = <<>>

----------------------------------------------------------------------------
(* Properties of delete_video_and_images_by_list *)

\* the directories that contain a listed image path
ListedDirs ==
    {Dirname(list_of_image_paths[i]) : i \in 1..Len(list_of_image_paths)} \ {<<>>}

ImageMessages == {"deleted image", "error deleting image", "image not found"}
DirMessages == {"deleted empty directory", "error deleting directory",
                "directory not empty", "directory not found"}
VideoMessages == {"deleted video", "error deleting video", "video not found"}

ImageLog == SelectSeq(log, LAMBDA e : e.msg \in ImageMessages)
DirLog == SelectSeq(log, LAMBDA e : e.msg \in DirMessages)

\* C7: after the call every directory of a listed image that exists and is empty
\* has been removed (unless its removal was tried and failed), and a directory is
\* gone only if nothing is left in it
C7_EmptyListedDirsRemoved ==
    (entry = "delete" /\ pc = "done") =>
        \A d \in ListedDirs :
            /\ (d \in fs /\ Listdir(d, fs) = {}) =>
                   \E k \in 1..Len(log) :
                       log[k] = [msg |-> "error deleting directory", path |-> d]
            /\ d \notin fs => Listdir(d, fs) = {}

\* C8: the call never raises; when it is done the video was handled once, every
\* listed image path was handled, in order, and every recorded directory was
\* handled once
C8_PassCompletes ==
    entry = "delete" =>
        /\ pc # "raised"
        /\ pc = "done" =>
               /\ Len(log) >= 1 /\ log[1].msg \in VideoMessages
               /\ [i \in 1..Len(ImageLog) |-> ImageLog[i].path] = list_of_image_paths
               /\ Len(DirLog) = Cardinality(parent_directories_to_check)
               /\ {DirLog[i].path : i \in 1..Len(DirLog)} = parent_directories_to_check

\* a finished call in which a deletion failed and later items were still handled
C8_Witness ==
    /\ entry = "delete"
    /\ pc = "done"
    /\ \E i, j \in 1..Len(log) :
           /\ i < j
           /\ log[i].msg = "error deleting image"
           /\ log[j].msg \in ImageMessages
    /\ \E i \in 1..Len(log) : log[i].msg = "error deleting directory"

----------------------------------------------------------------------------
(* Properties of process_video and analyze_video_from_image_urls *)

Analyzed == pc \in {"p_render", "done"} /\ x_returned

\* C9: a request is issued exactly when the URL list is not empty; with an empty
\* list (that of a video that did not open included) the result is None; the
\* request holds the system message, then the user message with one image entry per
\* URL in order and one text entry after them
C9_RequestIffImages ==
    entry = "process_video" =>
        /\ Len(requests) <= 1
        /\ Analyzed =>
               /\ Len(frame_urls) = Len(x_result)
               /\ ~openable => frame_urls = <<>>
               /\ Len(requests) = 1 <=> frame_urls # <<>>
               /\ frame_urls = <<>> => description = "None"
        /\ \A r \in 1..Len(requests) :
               LET content == requests[r][2].content
                   N == Len(frame_urls)
               IN  /\ N >= 1
                   /\ Len(requests[r]) = 2
                   /\ requests[r][1].role = "system"
                   /\ requests[r][2].role = "user"
                   /\ Len(content) = N + 1
                   /\ \A i \in 1..N : content[i] = ImageEntry(frame_urls[i])
                   /\ content[N + 1].type = "text"

\* the upload of a video that does not open was answered without any request
C9_Witness ==
    /\ entry = "process_video"
    /\ pc = "done"
    /\ x_returned
    /\ ~openable
    /\ video # <<>>
    /\ requests = <<>>
    /\ description = "None"

\* C10: no request ends with an exception leaving process_video
C10_NoExceptionEscapes ==
    entry = "process_video" => pc # "raised"

=============================================================================
